---- MODULE Spec2Model ----
(***************************************************************************)
(* A model of xmlpyp.Processor (src/xmlpyp.py): the line scanner of        *)
(* Processor.input, the snippet evaluation of Processor.exec_py, the       *)
(* capture buffer and the process-wide sys.stdout.                         *)
(*                                                                         *)
(* Text is a sequence of one-character strings.  The target name ("py")    *)
(* is the single character "P".  Snippets are written in a small script    *)
(* language with one statement per character:                              *)
(*   w  sys.stdout.write('w')      x  print('x')       y  print('y')       *)
(*   d  def f(): ...               u  f() (writes 'u') z  1/0              *)
(*   r  return (outside function)  !  a token that does not parse          *)
(*   o  sys.stdout.write('<?py ')                                          *)
(* blank and newline separate statements, a line that starts with a blank  *)
(* and holds a statement is an unexpected indent, every other character    *)
(* is a name that is not defined.                                          *)
(***************************************************************************)
EXTENDS Integers, Sequences, FiniteSets, TLC

VARIABLES
    corpus,              \* the class of inputs fed to the processor
    pc,                  \* "idle" | "input" | "closed"
    out_stream,          \* "open" | "none"      (self.out_stream)
    out_stream_flag,     \* the processor opened the sink from a path
    out_closes,          \* how often the sink's close() was called
    in_stream_flag,      \* input() opened its stream from a path
    in_closes,           \* how often the input stream's close() was called
    sink,                \* the text written to self.out_stream
    exec_globals,        \* the names defined in self.exec_globals
    print_buffer,        \* the content of self.print_buffer
    code_buffer,         \* the content of self.code_buffer
    sys_stdout,          \* "orig" | "print_buffer"
    orig_stdout,         \* input()'s saved destination
    stdout_text,         \* the text printed to the original sys.stdout
    line_num,            \* input()'s locals
    in_pi_tag,
    this_pi_tag_beg_ln,
    raised,              \* how the last call ended
    doc_in,              \* history: the lines read by the current input()
    sink0,               \* history: the sink when the current input() began
    evaluated,           \* history: every exec_py call, in order
    last_op,             \* history: the operation that ran last
    before,              \* history: the state the last step of input() found
    teardowns,           \* history: the number of close() calls
    ndocs, npre, budget

vars == <<corpus, pc, out_stream, out_stream_flag, out_closes, in_stream_flag,
          in_closes, sink, exec_globals, print_buffer,
          code_buffer, sys_stdout, orig_stdout, stdout_text, line_num,
          in_pi_tag, this_pi_tag_beg_ln, raised, doc_in, sink0, evaluated,
          last_op, before, teardowns, ndocs, npre, budget>>

\* ---------------------------------------------------------------- bounds
\* the number of items the environment supplies over a processor's life:
\* -c commands, documents, and the segments of their lines
MaxInput == 6
\* the number of close() calls over a processor's life (close, __exit__,
\* __del__)
MaxTeardown == 3

\* ------------------------------------------------------- text utilities
Min(S) == CHOOSE m \in S : \A n \in S : m <= n

RECURSIVE Flatten(_)
Flatten(ss) == IF ss = <<>> THEN <<>> ELSE Head(ss) \o Flatten(Tail(ss))

IsSpace(c) == c \in {" ", "\n"}

\* 1 + the number of newlines before position i
LineOfPos(s, i) == 1 + Cardinality({j \in 1..(i - 1) : s[j] = "\n"})

\* str.find of a two-character needle, from position from; 0 when absent
Find2(s, c1, c2, from) ==
    LET I == {i \in from..(Len(s) - 1) : s[i] = c1 /\ s[i + 1] = c2}
    IN  IF I = {} THEN 0 ELSE Min(I)

\* ------------------------------------------------- the two tag patterns
\* pattern_pi_beg  <\?\s*P\s  anchored at i: the position of its last
\* character (the whitespace), 0 when it does not match there
BegMatchAt(s, i) ==
    IF i + 1 > Len(s) \/ s[i] # "<" \/ s[i + 1] # "?" THEN 0
    ELSE LET N == {j \in (i + 2)..Len(s) : ~IsSpace(s[j])}
         IN  IF N = {} THEN 0
             ELSE LET j == Min(N)
                  IN  IF s[j] = "P" /\ j + 1 <= Len(s) /\ IsSpace(s[j + 1])
                      THEN j + 1 ELSE 0

\* pattern_pi_beg.search(s)
BegSearch(s) ==
    LET I == {i \in 1..Len(s) : BegMatchAt(s, i) # 0}
    IN  IF I = {} THEN [start |-> 0, end |-> 0]
        ELSE [start |-> Min(I), end |-> BegMatchAt(s, Min(I))]

\* pattern_pi_tag  <\?\s*P\s(.+?)\?>  anchored at i
TagMatchAt(s, i) ==
    LET e == BegMatchAt(s, i)
        k == IF e = 0 THEN 0 ELSE Find2(s, "?", ">", e + 2)
    IN  IF e = 0 \/ k = 0 \/ (\E m \in (e + 1)..(k - 1) : s[m] = "\n")
        THEN [start |-> 0, bfrom |-> 0, bto |-> 0, end |-> 0]
        ELSE [start |-> i, bfrom |-> e + 1, bto |-> k - 1, end |-> k + 1]

\* the leftmost match of pattern_pi_tag that starts at or after pos
TagSearch(s, pos) ==
    LET I == {i \in pos..Len(s) : TagMatchAt(s, i).start # 0}
    IN  IF I = {} THEN [start |-> 0, bfrom |-> 0, bto |-> 0, end |-> 0]
        ELSE TagMatchAt(s, Min(I))

\* ---------------------------------------------------- snippet evaluation
SyntaxChars == {"!", "?", "<", ">"}

\* the first character of the line of src that holds position i
LineStart(s, i) ==
    LET B == {j \in 1..i : j = 1 \/ s[j - 1] = "\n"}
    IN  CHOOSE j \in B : \A k \in B : k <= j

\* ast.parse(source): the line of the first token that does not parse or
\* that is indented, 0 when the source parses
FirstBadLine(src) ==
    LET B == {i \in 1..Len(src) :
                 \/ src[i] \in SyntaxChars
                 \/ ~IsSpace(src[i]) /\ src[LineStart(src, i)] = " "}
    IN  IF B = {} THEN 0 ELSE LineOfPos(src, Min(B))

\* compile(src_ast): the line of the first statement the compiler rejects
\* (a return outside a function), 0 when there is none
FirstRejectedLine(src) ==
    LET B == {i \in 1..Len(src) : src[i] = "r"}
    IN  IF B = {} THEN 0 ELSE LineOfPos(src, Min(B))

\* what print('x') writes: the text and the default line terminator
PrintOf(c) == <<c, "\n">>

\* exec(code, self.exec_globals): the statements in order from position i;
\* what was defined and written before a statement raises stays
RECURSIVE Run(_, _, _, _)
Run(src, i, ns, out) ==
    IF i > Len(src) THEN [ok |-> TRUE, ns |-> ns, out |-> out]
    ELSE LET c == src[i]
         IN  CASE IsSpace(c) -> Run(src, i + 1, ns, out)
               [] c = "w" -> Run(src, i + 1, ns, out \o <<"w">>)
               [] c \in {"x", "y"} -> Run(src, i + 1, ns, out \o PrintOf(c))
               [] c = "d" -> Run(src, i + 1, ns \cup {"f"}, out)
               [] c = "u" /\ "f" \in ns -> Run(src, i + 1, ns, out \o <<"u">>)
               [] c = "o" -> Run(src, i + 1, ns, out \o <<"<", "?", "P", " ">>)
               [] OTHER -> [ok |-> FALSE, ns |-> ns, out |-> out]

NoError == [kind |-> "none", phase |-> "none", lineno |-> 0]

\* exec() on a copy of the namespace: the definitions are lost
ExecCopyGlobals(ns, after) == ns
\* the namespace exec(code, self.exec_globals) leaves behind
ExecGlobals(ns, after) == after

\* the line number a SyntaxError of ast.parse carries:
\* e.lineno += line_num_offset
ShiftLineNo(lineno, line_num_offset) == lineno + line_num_offset

\* _AstLineNoModifier(line_num_offset)(src_ast): node.lineno += lineno_add
AstLineNoModifier(lineno, lineno_add) == lineno + lineno_add

\* Processor.exec_py(source, file_name, line_num): the exception that
\* leaves it (kind "none": it returns), the namespace afterwards and
\* what the snippet wrote to sys.stdout
exec_py(src, ns, ln) ==
    LET line_num_offset == ln - 1
        bad == FirstBadLine(src)
        rej == FirstRejectedLine(src)
        r == Run(src, 1, ns, <<>>)
    IN  IF bad # 0
        THEN [err |-> [kind |-> "PythonError", phase |-> "parse",
                       lineno |-> ShiftLineNo(bad, line_num_offset)],
              ns |-> ns, out |-> <<>>]
        ELSE IF rej # 0
        THEN [err |-> [kind |-> "SyntaxError", phase |-> "compile",
                       lineno |-> AstLineNoModifier(rej, line_num_offset)],
              ns |-> ns, out |-> <<>>]
        ELSE IF ~r.ok
        THEN [err |-> [kind |-> "PythonError", phase |-> "run", lineno |-> 0],
              ns |-> ExecGlobals(ns, r.ns), out |-> r.out]
        ELSE [err |-> NoError, ns |-> ExecGlobals(ns, r.ns), out |-> r.out]

\* the record the history keeps of one exec_py call
EvalRec(src, ln, ns, doc, r, buf) ==
    [src |-> src, ln |-> ln, ns |-> ns, doc |-> doc, kind |-> r.err.kind,
     out |-> r.out, after |-> r.ns, sub |-> buf]

\* ------------------------------------------------------------ the scanner
\* a write that is left out
WriteDropped(text, s) == text
\* TextIO.write
OutWrite(text, s) == text \o s

\* self.print_buffer.getvalue() without its last line terminator
GetValueStripped(buf) ==
    IF buf # <<>> /\ buf[Len(buf)] = "\n" THEN SubSeq(buf, 1, Len(buf) - 1)
    ELSE buf
\* self.print_buffer.getvalue()
GetValue(buf) == buf

\* a buffer that is not cleared
KeepStringIO(x) == x
\* Processor._clear_StringIO(x): x.truncate(0); x.seek(0)
clear_StringIO(x) == <<>>

\* an evaluation that writes what the snippet wrote to the sink at once,
\* whether the snippet failed or not
ExecAndWrite(src, st, ln, doc) ==
    LET r == exec_py(src, st.ns, ln)
    IN  [st EXCEPT !.ns = r.ns, !.pb = r.out, !.err = r.err,
                   !.sink = @ \o r.out,
                   !.log = Append(@, EvalRec(src, ln, st.ns, doc, r, r.out))]

\* exec_and_dump(src, to_stream) of Processor.input: the capture buffer is
\* cleared, the snippet runs with sys.stdout being the capture buffer, and
\* the buffer's value is the result.  st is the scanner's state.
exec_and_dump(src, st, ln, doc) ==
    LET r == exec_py(src, st.ns, ln)
        buf == OutWrite(clear_StringIO(st.pb), r.out)
    IN  [st EXCEPT !.ns = r.ns, !.pb = buf, !.err = r.err,
                   !.log = Append(@, EvalRec(src, ln, st.ns, doc, r, buf))]

\* self.pattern_pi_tag.sub(lambda m: exec_and_dump(m[1], None), line):
\* the matches of the original line from left to right, each replaced by
\* what its snippet wrote; m is the match at or after pos (start 0: there
\* is none) and st.line collects the new line
RECURSIVE SubFrom(_, _, _, _, _, _)
SubFrom(s, pos, m, st, ln, doc) ==
    IF m.start = 0
    THEN [st EXCEPT !.line = @ \o SubSeq(s, pos, Len(s))]
    ELSE LET st1 == exec_and_dump(SubSeq(s, m.bfrom, m.bto), st, ln, doc)
         IN  IF st1.err.kind # "none" THEN st1
             ELSE SubFrom(s, m.end + 1, TagSearch(s, m.end + 1),
                          [st1 EXCEPT !.line = @ \o SubSeq(s, pos, m.start - 1)
                                                 \o GetValue(st1.pb)],
                          ln, doc)

\* lines 208-216 of Processor.input: st.line is the line after the
\* substitution; the opening of a multi-line tag, then the write
OpenOrWrite(st, ln) ==
    LET m == BegSearch(st.line)
    IN  IF st.err.kind # "none" THEN st
        ELSE IF m.start = 0
        THEN [st EXCEPT !.sink = OutWrite(@, st.line)]
        ELSE [st EXCEPT !.in_tag = TRUE, !.beg = ln,
                  !.cb = OutWrite(clear_StringIO(@),
                                  SubSeq(st.line, m.end, Len(st.line))),
                  !.sink = OutWrite(@, SubSeq(st.line, 1, m.start - 1))]

\* lines 204-216 of Processor.input: the single-line tags of the (rest of
\* the) line, then the opening of a multi-line tag, then the write
ScanRest(rest, st, ln, doc) ==
    IF Find2(rest, "<", "?", 1) = 0
    THEN [st EXCEPT !.sink = OutWrite(@, rest)]
    ELSE OpenOrWrite(SubFrom(rest, 1, TagSearch(rest, 1),
                             [st EXCEPT !.beg = ln, !.line = <<>>], ln, doc),
                     ln)

\* one iteration of the loop of Processor.input (lines 189-216)
ProcessLine(line, st, ln, doc) ==
    IF ~st.in_tag THEN ScanRest(line, st, ln, doc)
    ELSE LET end_pos == Find2(line, "?", ">", 1)
         IN  IF end_pos = 0
             THEN [st EXCEPT !.cb = @ \o line]
             ELSE LET src == st.cb \o SubSeq(line, 1, end_pos - 1)
                      st1 == exec_and_dump(src, [st EXCEPT !.cb = src],
                                           st.beg, doc)
                  IN  IF st1.err.kind # "none" THEN st1
                      ELSE ScanRest(SubSeq(line, end_pos + 2, Len(line)),
                                    [st1 EXCEPT !.sink = OutWrite(@, GetValue(st1.pb)),
                                                !.in_tag = FALSE, !.beg = 0],
                                    ln, doc)

\* ------------------------------------------------------------ the inputs
\* A document is given to input() line by line.  A line is a sequence of
\* segments of its corpus, closed by a newline or by the end of the stream.
Tag(c) == <<"<", "?", "P", " ", c, "?", ">">>
SegOpen == <<"<", "?", "P", " ">>
SegClose == <<"?", ">">>
SegLt == <<"<", "?">>

BodySegs(c) ==
    CASE c = "scan" -> {<<"a">>, SegOpen, SegClose, <<"w">>, Tag("w")}
      [] c = "pass" -> {<<"a">>, SegLt, SegClose, <<"P">>, <<" ">>}
      [] c = "errors" -> {SegOpen, SegClose, Tag("!"), <<"r">>, <<"z">>}
      [] c = "names" -> {Tag("d"), Tag("u"), Tag("z"), <<"a">>}
      [] c = "chain" -> {<<"A">>, <<"B">>, <<"C">>, Tag("x"), Tag("y")}
      [] c = "files" -> {<<"a">>, Tag("w"), Tag("z"), SegOpen}
      [] c = "partial" -> {SegOpen, SegClose, <<"w">>, Tag("w"), Tag("z")}
      [] c = "echo" -> {Tag("o"), Tag("w"), <<"a">>, SegClose}

HasNewline(c) == c # "chain"

\* the snippets of the driver's -c options
PreCmds(c) == IF c = "names" THEN {<<"d">>, <<"x">>} ELSE {<<"d">>}

\* the sink and the documents are given as open streams, or (corpus
\* "files") as paths as well
StreamFlags(c) == IF c = "files" THEN BOOLEAN ELSE {FALSE}

SegSeqs(S, n) == UNION {[1..k -> S] : k \in 0..n}

\* ------------------------------------------------------ stream ownership
\* a close that does not look at the flag
CloseAlways(flag, closes) == closes + 1
\* Processor._close_file((f, flag)): f.close() if the processor opened f
close_file(flag, closes) == IF flag THEN closes + 1 ELSE closes

\* a test that takes a released sink for a held one
OutStreamAny(stream) == TRUE
\* the test of Processor.close: if self.out_stream
OutStreamHeld(stream) == stream # "none"

\* a destination that is not put back
KeepStdout(cur, orig) == cur
\* the finally clause of Processor.input: sys.stdout = orig_stdout
RestoreStdout(cur, orig) == orig

\* a scanner that starts where the last call stopped
KeepInTag(prev) == prev
\* in_pi_tag = False at the start of Processor.input
StartInTag(prev) == FALSE

\* the history a step of input() keeps of the state it found
Snapshot ==
    [sink |-> sink, in_tag |-> in_pi_tag, nevals |-> Len(evaluated),
     ns |-> exec_globals]

\* ------------------------------------------------------------ the actions
InitFor(c) ==
    /\ corpus = c
    /\ pc = "idle"
    /\ out_stream = "open"
    /\ out_stream_flag \in StreamFlags(c)
    /\ out_closes = 0
    /\ in_stream_flag = FALSE
    /\ in_closes = 0
    /\ sink = <<>>
    /\ exec_globals = {}
    /\ print_buffer = <<>>
    /\ code_buffer = <<>>
    /\ sys_stdout = "orig"
    /\ orig_stdout = "orig"
    /\ stdout_text = <<>>
    /\ line_num = 0
    /\ in_pi_tag = FALSE
    /\ this_pi_tag_beg_ln = 0
    /\ raised = NoError
    /\ doc_in = <<>>
    /\ sink0 = <<>>
    /\ evaluated = <<>>
    /\ last_op = "init"
    /\ before = [sink |-> <<>>, in_tag |-> FALSE, nevals |-> 0, ns |-> {}]
    /\ teardowns = 0
    /\ ndocs = 0
    /\ npre = 0
    /\ budget = MaxInput

\* main(): p.exec_py(c, '<command-line>') for a -c command, before any
\* document; what the snippet prints goes to the current sys.stdout
ExecPre ==
    /\ pc = "idle" /\ ndocs = 0 /\ budget >= 1
    /\ \E c \in PreCmds(corpus) :
          LET r == exec_py(c, exec_globals, 1)
          IN  /\ exec_globals' = r.ns
              /\ raised' = r.err
              /\ evaluated' = Append(evaluated,
                                    EvalRec(c, 1, exec_globals, 0, r, r.out))
              /\ IF sys_stdout = "orig"
                 THEN /\ stdout_text' = OutWrite(stdout_text, r.out)
                      /\ print_buffer' = print_buffer
                 ELSE /\ print_buffer' = OutWrite(print_buffer, r.out)
                      /\ stdout_text' = stdout_text
    /\ npre' = npre + 1
    /\ budget' = budget - 1
    /\ last_op' = "pre"
    /\ UNCHANGED <<corpus, pc, out_stream, out_stream_flag, out_closes,
                   in_stream_flag, in_closes, sink, code_buffer, sys_stdout,
                   orig_stdout, line_num, in_pi_tag, this_pi_tag_beg_ln,
                   doc_in, sink0, before, teardowns, ndocs>>

\* Processor.input, lines 167-178: the stream is opened, sys.stdout is
\* replaced by the capture buffer and the scanner starts outside a tag
InputBegin ==
    /\ pc = "idle" /\ budget >= 1
    /\ out_stream # "none"
    /\ pc' = "input"
    /\ in_stream_flag' \in StreamFlags(corpus)
    /\ in_closes' = 0
    /\ orig_stdout' = sys_stdout
    /\ sys_stdout' = "print_buffer"
    /\ line_num' = 0
    /\ in_pi_tag' = StartInTag(in_pi_tag)
    /\ this_pi_tag_beg_ln' = 0
    /\ raised' = NoError
    /\ doc_in' = <<>>
    /\ sink0' = sink
    /\ before' = Snapshot
    /\ budget' = budget - 1
    /\ last_op' = "begin"
    /\ UNCHANGED <<corpus, out_stream, out_stream_flag, out_closes, sink,
                   exec_globals, print_buffer, code_buffer, stdout_text,
                   evaluated, teardowns, ndocs, npre>>

\* the stream has another line: the last line read ended with a newline
MoreInput ==
    IF doc_in = <<>> THEN TRUE
    ELSE LET last == doc_in[Len(doc_in)] IN last[Len(last)] = "\n"

\* Processor.input, lines 189-216 for one line of the stream, and lines
\* 224-226 when a snippet of the line raises
InputLine ==
    /\ pc = "input" /\ MoreInput
    /\ \E f \in SegSeqs(BodySegs(corpus), budget), nl \in BOOLEAN :
          /\ nl => HasNewline(corpus) /\ Len(f) < budget
          /\ ~nl => Len(f) >= 1
          /\ LET line == Flatten(f) \o (IF nl THEN <<"\n">> ELSE <<>>)
                 st0 == [sink |-> sink, ns |-> exec_globals, pb |-> print_buffer,
                         cb |-> code_buffer, in_tag |-> in_pi_tag,
                         beg |-> this_pi_tag_beg_ln, log |-> evaluated,
                         err |-> NoError, line |-> <<>>]
             IN  \E st \in {ProcessLine(line, st0, line_num + 1, ndocs + 1)} :
                    /\ line_num' = line_num + 1
                    /\ doc_in' = Append(doc_in, line)
                    /\ budget' = budget - Len(f) - (IF nl THEN 1 ELSE 0)
                    /\ sink' = st.sink
                    /\ exec_globals' = st.ns
                    /\ print_buffer' = st.pb
                    /\ code_buffer' = st.cb
                    /\ in_pi_tag' = st.in_tag
                    /\ this_pi_tag_beg_ln' = st.beg
                    /\ evaluated' = st.log
                    /\ raised' = st.err
                    /\ IF st.err.kind # "none"
                       THEN /\ sys_stdout' = RestoreStdout(sys_stdout, orig_stdout)
                            /\ in_closes' = close_file(in_stream_flag, in_closes)
                            /\ pc' = "idle"
                            /\ ndocs' = ndocs + 1
                       ELSE UNCHANGED <<sys_stdout, in_closes, pc, ndocs>>
    /\ before' = Snapshot
    /\ last_op' = "line"
    /\ UNCHANGED <<corpus, out_stream, out_stream_flag, out_closes,
                   in_stream_flag, orig_stdout, stdout_text, sink0,
                   teardowns, npre>>

\* Processor.input, lines 218-226: the stream has ended
InputEnd ==
    /\ pc = "input"
    /\ raised' = IF in_pi_tag
                 THEN [kind |-> "XmlError", phase |-> "none",
                       lineno |-> this_pi_tag_beg_ln]
                 ELSE NoError
    /\ sys_stdout' = RestoreStdout(sys_stdout, orig_stdout)
    /\ in_closes' = close_file(in_stream_flag, in_closes)
    /\ pc' = "idle"
    /\ ndocs' = ndocs + 1
    /\ before' = Snapshot
    /\ last_op' = "end"
    /\ UNCHANGED <<corpus, out_stream, out_stream_flag, out_closes,
                   in_stream_flag, sink, exec_globals, print_buffer,
                   code_buffer, orig_stdout, stdout_text, line_num, in_pi_tag,
                   this_pi_tag_beg_ln, doc_in, sink0, evaluated, teardowns,
                   npre, budget>>

\* Processor.close: the exit of the driver's with block, an explicit
\* close() and the finaliser all come here
Close ==
    /\ pc \in {"idle", "closed"}
    /\ teardowns < MaxTeardown
    /\ out_closes' = IF OutStreamHeld(out_stream)
                     THEN close_file(out_stream_flag, out_closes)
                     ELSE out_closes
    /\ out_stream' = "none"
    /\ pc' = "closed"
    /\ teardowns' = teardowns + 1
    /\ last_op' = "close"
    /\ UNCHANGED <<corpus, out_stream_flag, in_stream_flag, in_closes, sink,
                   exec_globals, print_buffer, code_buffer, sys_stdout,
                   orig_stdout, stdout_text, line_num, in_pi_tag,
                   this_pi_tag_beg_ln, raised, doc_in, sink0, evaluated,
                   before, ndocs, npre, budget>>

Next == ExecPre \/ InputBegin \/ InputLine \/ InputEnd \/ Close

Init == InitFor("scan")
Spec == Init /\ [][Next]_vars

InitPass == InitFor("pass")
SpecPass == InitPass /\ [][Next]_vars

InitErrors == InitFor("errors")
SpecErrors == InitErrors /\ [][Next]_vars

InitNames == InitFor("names")
SpecNames == InitNames /\ [][Next]_vars

InitChain == InitFor("chain")
SpecChain == InitChain /\ [][Next]_vars

InitFiles == InitFor("files")
SpecFiles == InitFiles /\ [][Next]_vars

InitPartial == InitFor("partial")
SpecPartial == InitPartial /\ [][Next]_vars

InitEcho == InitFor("echo")
SpecEcho == InitEcho /\ [][Next]_vars

\* ------------------------------------------- the document as the spec reads it
\* The tags of a text by the tag syntax: an opening marker (the target and
\* the whitespace after it), then the body up to the first ?> after the
\* marker.  A tag is [open, bfrom, bto, close, closed]; an unclosed tag is
\* the last one.
RECURSIVE RefScan(_, _)
RefScan(t, pos) ==
    LET I == {i \in pos..Len(t) : BegMatchAt(t, i) # 0}
    IN  IF I = {} THEN <<>>
        ELSE LET o == Min(I)
                 e == BegMatchAt(t, o)
                 k == Find2(t, "?", ">", e + 1)
             IN  IF k = 0
                 THEN << [open |-> o, bfrom |-> e + 1, bto |-> Len(t),
                          close |-> 0, closed |-> FALSE] >>
                 ELSE << [open |-> o, bfrom |-> e + 1, bto |-> k - 1,
                          close |-> k, closed |-> TRUE] >>
                      \o RefScan(t, k + 2)

DocText == Flatten(doc_in)
Tags == RefScan(DocText, 1)
Body(t) == SubSeq(DocText, t.bfrom, t.bto)
MultiLine(t) == t.closed /\ \E i \in t.open..t.close : DocText[i] = "\n"
SingleLine(t) == t.closed /\ ~MultiLine(t)
TagLine(t) == LineOfPos(DocText, t.open)

\* the input() call the history is about, and the exec_py calls it made
CurDoc == IF pc = "input" THEN ndocs + 1 ELSE ndocs
DocEvals == SelectSeq(evaluated, LAMBDA e : e.doc = CurDoc)
InDoc == last_op \in {"line", "end"}

\* ------------------------------------------------------------------ C1
\* C1: a document without any instruction tag is written to the sink as
\* it is, character by character, and no snippet is evaluated.
C1_Passthrough ==
    (InDoc /\ Tags = <<>>) =>
        /\ raised.kind = "none"
        /\ sink = sink0 \o DocText
        /\ DocEvals = <<>>

C1_Witness ==
    /\ last_op = "end" /\ Tags = <<>> /\ Len(doc_in) >= 2
    /\ Find2(DocText, "<", "?", 1) # 0 /\ Find2(DocText, "?", ">", 1) # 0
    /\ sink = sink0 \o DocText

\* ------------------------------------------------------------------ C2
\* C2: a name defined by a snippet that ran to its end is in the namespace
\* of every snippet evaluated after it (later tags, later documents, and
\* after a pre-execution snippet), a later call of the defined function
\* succeeds, and snippets run in the order of documents and lines.
C2_NamesPersist ==
    \A i, j \in 1..Len(evaluated) :
        i < j =>
            /\ evaluated[i].doc <= evaluated[j].doc
            /\ evaluated[i].doc = evaluated[j].doc
                  => evaluated[i].ln <= evaluated[j].ln
            /\ (evaluated[i].kind = "none"
                /\ \E k \in 1..Len(evaluated[i].src) : evaluated[i].src[k] = "d")
                  => /\ "f" \in evaluated[j].ns
                     /\ "f" \in exec_globals
                     /\ evaluated[j].src = <<"u">> => evaluated[j].kind = "none"

C2_Witness ==
    \E i, j \in 1..Len(evaluated) :
        /\ i < j
        /\ evaluated[i].src = <<"d">> /\ evaluated[i].doc = 1
        /\ evaluated[j].src = <<"u">> /\ evaluated[j].doc = 2
        /\ evaluated[j].kind = "none"
        /\ \E k \in 1..Len(sink) : sink[k] = "u"

\* ------------------------------------------------------------------ C3
\* C3: the snippet evaluated for a tag whose markers are on different
\* lines is the text between the markers, and a document that is one such
\* tag leaves on the sink the text before it, its output, the text after.
C3_MultiLineBody ==
    /\ \A i \in 1..Len(DocEvals) :
          (i <= Len(Tags) /\ MultiLine(Tags[i]))
              => DocEvals[i].src = Body(Tags[i])
    /\ (last_op = "end" /\ raised.kind = "none" /\ Len(Tags) = 1
        /\ MultiLine(Tags[1]))
          => sink = sink0 \o SubSeq(DocText, 1, Tags[1].open - 1)
                          \o print_buffer
                          \o SubSeq(DocText, Tags[1].close + 2, Len(DocText))

\* ------------------------------------------------------------------ C4
\* C4: when the stream ends inside a tag that is not closed, input raises
\* XmlError and names the line of that tag's opening marker.
C4_UnterminatedLine ==
    (last_op = "end" /\ Tags # <<>> /\ ~Tags[Len(Tags)].closed) =>
        /\ raised.kind = "XmlError"
        /\ raised.lineno = TagLine(Tags[Len(Tags)])

\* ------------------------------------------------------------------ C5
\* C5: a document whose tags are all closed, a tag with an empty body
\* included, ends without XmlError and outside a tag.
C5_ClosedNeverMalformed ==
    (last_op = "end" /\ \A i \in 1..Len(Tags) : Tags[i].closed) =>
        /\ raised.kind # "XmlError"
        /\ ~in_pi_tag

\* ------------------------------------------------------------------ C6
\* C6: a snippet that fails in any phase (parse, compile, run) leaves
\* input as PythonError.
C6_FailuresWrapped ==
    (last_op = "line" /\ raised.phase # "none") => raised.kind = "PythonError"

\* ------------------------------------------------------------------ C7
ScenarioLine == <<"A">> \o Tag("x") \o <<"B">> \o Tag("y") \o <<"C">>
Scenario ==
    /\ last_op = "end" /\ npre = 0 /\ ndocs = 1
    /\ doc_in = <<ScenarioLine>>

\* C7 as stated: the scenario A<?py print('x')?>B<?py print('y')?>C
\* leaves AxByC on the sink.
C7_Original == Scenario => sink = <<"A", "x", "B", "y", "C">>

\* C7, amended: the scenario leaves on the sink what the snippets
\* printed, line terminators included: Ax, By and C on three lines.
C7_Amended ==
    Scenario => /\ raised.kind = "none"
                /\ sink = <<"A", "x", "\n", "B", "y", "\n", "C">>

C7_Witness == Scenario /\ Len(sink) = 7

\* ------------------------------------------------------------------ C8
\* C8: on a line with two or more single-line tags each tag is evaluated
\* with its own body, in order, and a finished one-line document of such
\* tags has evaluated every one of them.
Chained(i) ==
    /\ SingleLine(Tags[i])
    /\ \E j \in 1..Len(Tags) :
          j # i /\ SingleLine(Tags[j]) /\ TagLine(Tags[j]) = TagLine(Tags[i])

C8_ChainedTags ==
    /\ \A i \in 1..Len(DocEvals) :
          (i <= Len(Tags) /\ Chained(i)) => DocEvals[i].src = Body(Tags[i])
    /\ (last_op = "end" /\ raised.kind = "none" /\ Len(doc_in) = 1
        /\ \A i \in 1..Len(Tags) : Chained(i))
          => Len(DocEvals) = Len(Tags)

\* ------------------------------------------------------------------ C9
\* a snippet that parses, compiles and runs whatever is defined
Clean(src) == exec_py(src, {}, 1).err.kind = "none"

\* C9: the first tag whose body has a syntax error, on the Nth line of a
\* body that starts on line L, is reported by PythonError with line
\* L + N - 1.
C9_SyntaxErrorLine ==
    \A k \in 1..Len(Tags) :
        (/\ Tags[k].closed
         /\ FirstBadLine(Body(Tags[k])) # 0
         /\ \A i \in 1..(k - 1) : Clean(Body(Tags[i])))
        => /\ raised.kind = "PythonError"
           /\ raised.lineno = LineOfPos(DocText, Tags[k].bfrom)
                              + FirstBadLine(Body(Tags[k])) - 1

\* ----------------------------------------------------------------- C10
\* C10: what a pre-execution snippet prints reaches neither the sink nor
\* the real sys.stdout.
C10_PreOutputDiscarded ==
    last_op = "pre" => stdout_text = <<>> /\ sink = <<>>

\* ----------------------------------------------------------------- C11
\* C11: whenever no input() call is running, after any number of calls and
\* however they ended, sys.stdout is the destination the process had
\* before the calls.
C11_StdoutRestored == pc # "input" => sys_stdout = "orig"

C11_Witness ==
    /\ pc = "idle" /\ ndocs = 2 /\ last_op = "line"
    /\ raised.kind = "PythonError" /\ sys_stdout = "orig"

\* ----------------------------------------------------------------- C12
\* C12: between two snippet evaluations of a running input() call (a line
\* has been read and written, the next is not yet read) sys.stdout is the
\* original destination.
C12_RedirectedOnlyWhileRunning == pc = "input" => sys_stdout = "orig"

\* ----------------------------------------------------------------- C13
\* C13: the value of the capture buffer after the evaluation of a
\* document tag, which is the text substituted for the tag, is what that
\* tag's own snippet wrote and nothing an earlier evaluation left there.
C13_BufferHoldsOwnOutput ==
    \A i \in 1..Len(evaluated) :
        evaluated[i].doc >= 1 => evaluated[i].sub = evaluated[i].out

C13_Witness ==
    \E i, j, k \in 1..Len(evaluated) :
        /\ i < j /\ j < k
        /\ evaluated[i].doc = 1 /\ evaluated[j].doc = 1 /\ evaluated[k].doc = 2
        /\ evaluated[i].out # <<>> /\ evaluated[j].out # <<>>
        /\ evaluated[k].sub = evaluated[k].out /\ evaluated[k].out # <<>>

\* ----------------------------------------------------------------- C14
\* C14: a sink the processor opened from a path is closed by the first
\* close() and never again: not closed before any teardown, closed once
\* after one or more.
C14_SinkClosedOnce ==
    out_stream_flag =>
        /\ teardowns = 0 => out_closes = 0 /\ out_stream = "open"
        /\ teardowns >= 1 => out_closes = 1 /\ out_stream = "none"

C14_Witness ==
    /\ out_stream_flag /\ teardowns = MaxTeardown /\ out_closes = 1
    /\ ndocs = 2 /\ raised.kind = "PythonError"

\* ----------------------------------------------------------------- C15
\* C15: an input stream that input() opened from a path is closed once
\* when the call has ended, however it ended; a stream the caller
\* supplied, input or sink, is never closed.
C15_StreamOwnership ==
    /\ ~out_stream_flag => out_closes = 0
    /\ ~in_stream_flag => in_closes = 0
    /\ (in_stream_flag /\ pc = "input") => in_closes = 0
    /\ (in_stream_flag /\ pc # "input" /\ ndocs >= 1) => in_closes = 1

C15_Witness ==
    /\ in_stream_flag /\ ~out_stream_flag /\ pc = "closed"
    /\ raised.kind = "XmlError" /\ in_closes = 1 /\ out_closes = 0

\* ----------------------------------------------------------------- C16
\* C16: the snippet evaluated for a document tag ends before the first ?>
\* after the opening marker, so no evaluated snippet holds a ?>.
C16_BodyEndsAtFirstClose ==
    \A i \in 1..Len(evaluated) :
        evaluated[i].doc >= 1 => Find2(evaluated[i].src, "?", ">", 1) = 0

\* ----------------------------------------------------------------- C17
\* C17: the snippet evaluated for the first tag of a document starts with
\* the character after the whitespace that follows the target: it is the
\* document text from that position on.
C17_WhitespaceNotInBody ==
    (InDoc /\ DocEvals # <<>> /\ Tags # <<>>) =>
        LET src == DocEvals[1].src
            b == Tags[1].bfrom
        IN  src = SubSeq(DocText, b, b + Len(src) - 1)

\* ----------------------------------------------------------------- C18
\* a snippet of the line read last has failed
LineFailed == last_op = "line" /\ raised.kind # "none"
\* the evaluations made for the line read last
NewEvals == Len(evaluated) - before.nevals

\* C18 as stated: when a snippet fails, the sink holds what it held
\* before the line was read and nothing of the line.
C18_Original == LineFailed => sink = before.sink

\* C18, amended: when a snippet fails, the sink holds what it held before
\* the line was read; when the line closed a multi-line tag whose snippet
\* succeeded before the failure, it holds that snippet's output as well,
\* and nothing else of the line.
C18_Amended ==
    LineFailed =>
        IF before.in_tag /\ NewEvals >= 2
        THEN sink = before.sink \o evaluated[before.nevals + 1].out
        ELSE sink = before.sink

C18_Witness ==
    /\ LineFailed /\ before.in_tag /\ NewEvals = 2
    /\ evaluated[before.nevals + 1].out # <<>>
    /\ sink = before.sink \o evaluated[before.nevals + 1].out

\* ----------------------------------------------------------------- C19
IsSuffix(a, b) ==
    Len(a) <= Len(b) /\ SubSeq(b, Len(b) - Len(a) + 1, Len(b)) = a

\* C19: what the scanner accumulates as the body of an open tag is text
\* of the document (the end of what was read so far), never text that a
\* snippet wrote.
C19_OutputNotRescanned ==
    (pc = "input" /\ in_pi_tag) => IsSuffix(code_buffer, DocText)

\* ----------------------------------------------------------------- C20
\* the line read last, and whether the scanner was inside a tag before
\* and found no ?> in it
LastLine == doc_in[Len(doc_in)]
Accumulated ==
    last_op = "line" /\ before.in_tag /\ Find2(LastLine, "?", ">", 1) = 0

\* C20: a line read inside a tag that does not close it, and the end of
\* the stream inside a tag (XmlError), evaluate nothing and leave the
\* namespace as the last evaluation left it; the next input() call starts
\* outside a tag, and a tag is only ever open from a line of the document
\* being read.
C20_UnclosedNeverEvaluated ==
    /\ Accumulated =>
          /\ NewEvals = 0 /\ exec_globals = before.ns /\ in_pi_tag
    /\ (last_op = "end" /\ raised.kind = "XmlError") =>
          /\ NewEvals = 0 /\ exec_globals = before.ns
          /\ exec_globals = IF evaluated = <<>> THEN {}
                            ELSE evaluated[Len(evaluated)].after
          /\ sink = before.sink
    /\ last_op = "begin" => ~in_pi_tag
    /\ (pc = "input" /\ in_pi_tag) => this_pi_tag_beg_ln \in 1..line_num

C20_Witness ==
    /\ pc = "input" /\ ndocs = 1 /\ last_op = "line" /\ ~in_pi_tag
    /\ code_buffer # <<>>
    /\ Len(evaluated) = 1 /\ evaluated[1].doc = 2 /\ evaluated[1].kind = "none"
    /\ evaluated[1].src = <<"w">>
====
